---- MODULE Spec2Model ----
(***************************************************************************)
(* A model of pubsub.js: the event registry `pubsub.events`, the local     *)
(* API (subscribe, subscribeMultiple, unsubscribe, unsubscribeObserver,    *)
(* publish, initialize, initPostMessaging) and the remote send             *)
(* publishRemotely.                                                        *)
(*                                                                         *)
(* `pubsub.events` is a plain JavaScript object.  It is modelled as the    *)
(* sequence of its own properties in property order, each holding either   *)
(* an array of subscription records or a function value.  A lookup of a    *)
(* name the object does not own falls through to Object.prototype, as      *)
(* `events[name]` and `name in events` do in the source.                   *)
(***************************************************************************)
EXTENDS Integers, Sequences, FiniteSets, TLC

VARIABLES
    events,     \* pubsub.events: the own properties, in property order
    listeners,  \* number of "message" listeners added by initPostMessaging
    calls,      \* deliveries attempted by the last publish, in order
    posted,     \* postMessage calls made by the last publish, in order
    threw,      \* whether the last API call ended by throwing to its caller
    last        \* the last API call and its arguments

vars == <<events, listeners, calls, posted, threw, last>>

(***************************************************************************)
(* Bounds of the model.                                                    *)
(***************************************************************************)
\* Largest number of subscription records held by the registry at once.
MaxRecords == 2
\* Largest number of "message" listeners added.
MaxListeners == 2

(***************************************************************************)
(* Input values.                                                           *)
(***************************************************************************)
\* Event names that are ordinary strings: the pre-seeded one and another.
PlainNames == {"default", "a"}
\* An event name that is also a property of Object.prototype.
ProtoNames == {"hasOwnProperty"}
\* The falsy event name (the empty string).
NoName == ""
EventNames == PlainNames \cup ProtoNames
EventNameArgs == EventNames \cup {NoName}

\* Observer identifiers, given as their characters.
ObserverChars ==
    [x |-> <<"x">>,
     u |-> <<"h", "t", "t", "p", ":", "/", "/", "u", "/">>,
     V |-> <<"H", "T", "T", "P", ":", "/", "/", "V", "/">>,
     none |-> <<>>]
Observers == {"x", "u", "V"}
\* The falsy observer (the empty string).
NoObserver == "none"
ObserverArgs == Observers \cup {NoObserver}

\* Callable third arguments: what the function does when it is invoked.
\*   hOk          returns
\*   hThrow       throws
\*   hUnsub       calls pubsub.unsubscribe(<its event>, <its observer>), returns
\*   hUnsubThrow  calls pubsub.unsubscribe(<its event>, <its observer>), throws
Handlers == {"hOk", "hThrow", "hUnsub", "hUnsubThrow"}
\* Callable third arguments that call back into publish or subscribe:
\*   hPublish       d => { if (d !== 0) pubsub.publish("a", 0); }
\*   hSubscribe     calls pubsub.subscribe(<its event>, <its observer>, <itself>)
\*   hSubMultiple   calls pubsub.subscribeMultiple([<its event>], <its observer>, <itself>)
ReentrantHandlers == {"hPublish", "hSubscribe", "hSubMultiple"}
\* callback instanceof Function
Callables == Handlers \cup ReentrantHandlers
\* The data and the event of the publish hPublish makes.
NestedData == 0
NestedEvent == "a"
\* A third argument that is not a function: undefined.
NonCallables == {"undefined"}
CallbackArgs == Handlers \cup NonCallables

\* The eventNames argument of subscribeMultiple: an array of names, a string
\* (truthy, not an array) or undefined.
NamesArray(items) == [tag |-> "array", items |-> items]
NotAnArray == {[tag |-> "string", items |-> <<>>], [tag |-> "undefined", items |-> <<>>]}

\* Published data.
Data == {1, 2}

\* The windows around the page at the time of a publish: window.frames, each
\* frame with its location.href (an observer identifier when it is that URL),
\* whether it is cross-origin (reading its location.href then throws a
\* SecurityError) and whether it has postMessage; and window.opener.
Frame(href, crossOrigin) ==
    [href |-> href, crossOrigin |-> crossOrigin, postMessage |-> TRUE]
Window(frames, opener) == [frames |-> frames, opener |-> opener]
NoWindows == Window(<<>>, "none")

(***************************************************************************)
(* JavaScript values held by `events`.                                     *)
(***************************************************************************)
\* An array of subscription records.
Array(items) == [kind |-> "array", items |-> items]
\* Object.prototype.hasOwnProperty: a function, whose .length is 1.
ProtoFunction == [kind |-> "function", items |-> <<>>, length |-> 1]
\* undefined
Undefined == [kind |-> "undefined", items |-> <<>>]
\* null
Null == [kind |-> "null", items |-> <<>>]

\* Index of the own property `name`, 0 when there is none.
OwnIndex(ev, name) ==
    IF \E i \in 1..Len(ev) : ev[i].key = name
    THEN CHOOSE i \in 1..Len(ev) : ev[i].key = name
    ELSE 0

\* Object.keys(events), as a set.
Keys(ev) == {ev[i].key : i \in 1..Len(ev)}

\* events[name]: an own property, else Object.prototype's, else undefined.
Get(ev, name) ==
    IF OwnIndex(ev, name) # 0 THEN ev[OwnIndex(ev, name)].val
    ELSE IF name \in ProtoNames THEN ProtoFunction
    ELSE Undefined

\* name in events
In(ev, name) == OwnIndex(ev, name) # 0 \/ name \in ProtoNames

\* events[name] = val
Put(ev, name, val) ==
    IF OwnIndex(ev, name) # 0
    THEN [ev EXCEPT ![OwnIndex(ev, name)].val = val]
    ELSE Append(ev, [key |-> name, val |-> val])

\* !!value, for a value held by events
Truthy(val) == val.kind \notin {"undefined", "null"}

\* value.length
Length(val) == IF val.kind = "array" THEN Len(val.items) ELSE val.length

\* The records of bucket `name`; none when events[name] is not an array.
Bucket(ev, name) ==
    IF Get(ev, name).kind = "array" THEN Get(ev, name).items ELSE <<>>

\* Number of subscription records in the registry.
RECURSIVE TotalRecords(_)
TotalRecords(ev) ==
    IF ev = <<>> THEN 0 ELSE Len(Head(ev).val.items) + TotalRecords(Tail(ev))

\* The outcome of an API call: the registry it leaves, and whether it threw.
Result(ev, t) == [events |-> ev, threw |-> t]

(***************************************************************************)
(* pubsub.subscribe, pubsub.subscribeMultiple                              *)
(***************************************************************************)
\* The i flag: a character of the pattern matches in either case.
Lower(c) == IF c = "H" THEN "h" ELSE IF c = "T" THEN "t" ELSE IF c = "P" THEN "p" ELSE c

\* /^http/i.test(observer)
TestHttp(observer) ==
    LET s == ObserverChars[observer] IN
    /\ Len(s) >= 4
    /\ <<Lower(s[1]), Lower(s[2]), Lower(s[3]), Lower(s[4])>> = <<"h", "t", "t", "p">>

\* A push at the front: this.events[eventName].unshift(record).
Unshift(ev, name, record) ==
    LET val == IF Truthy(Get(ev, name)) THEN Get(ev, name) ELSE [kind |-> "array", items |-> <<>>] IN
    IF val.kind = "array"
    THEN Result(Put(ev, name, [kind |-> "array", items |-> <<record>> \o val.items]), FALSE)
    ELSE Result(Put(ev, name, val), TRUE)

\* this.events[name] = this.events[name] || []; this.events[name].push(record)
\* The assignment stands when .push then throws a TypeError (not an array).
Push(ev, name, record) ==
    LET val == IF Truthy(Get(ev, name)) THEN Get(ev, name) ELSE Array(<<>>) IN
    IF val.kind = "array"
    THEN Result(Put(ev, name, Array(Append(val.items, record))), FALSE)
    ELSE Result(Put(ev, name, val), TRUE)

doSubscribe(ev, eventName, observer, callback) ==
    IF eventName # NoName
    THEN IF callback \in Callables
         THEN Push(ev, eventName, [observer |-> observer, callback |-> callback])
         ELSE IF TestHttp(observer)
         THEN Push(ev, eventName, [observer |-> observer, payload |-> callback])
         ELSE Result(ev, FALSE)
    ELSE Result(ev, FALSE)

\* eventNames.forEach(name => ...): a throwing push ends the loop.
RECURSIVE pushEach(_, _, _)
pushEach(ev, names, record) ==
    IF names = <<>> THEN Result(ev, FALSE)
    ELSE LET r == Push(ev, Head(names), record) IN
         IF r.threw THEN r ELSE pushEach(r.events, Tail(names), record)

\* A subscribeMultiple with subscribe's second branch: a URL observer with a
\* callback that is not callable registers a remote record on each name.
doSubscribeMultipleRemote(ev, eventNames, observer, callback) ==
    IF eventNames.tag = "array"
    THEN IF callback \in Callables
         THEN pushEach(ev, eventNames.items, [observer |-> observer, callback |-> callback])
         ELSE IF TestHttp(observer)
         THEN pushEach(ev, eventNames.items, [observer |-> observer, payload |-> callback])
         ELSE Result(ev, FALSE)
    ELSE Result(ev, FALSE)

doSubscribeMultiple(ev, eventNames, observer, callback) ==
    IF eventNames.tag = "array"
    THEN IF callback \in Callables
         THEN pushEach(ev, eventNames.items, [observer |-> observer, callback |-> callback])
         ELSE Result(ev, FALSE)
    ELSE Result(ev, FALSE)

(***************************************************************************)
(* pubsub.unsubscribe, pubsub.unsubscribeObserver, pubsub.initialize       *)
(***************************************************************************)
\* The last i with items[i].observer === observer, 0 when there is none.
LastMatch(items, observer) ==
    IF \E i \in 1..Len(items) : items[i].observer = observer
    THEN CHOOSE i \in 1..Len(items) :
            /\ items[i].observer = observer
            /\ \A j \in (i + 1)..Len(items) : items[j].observer # observer
    ELSE 0

\* The first i with items[i].observer === observer, 0 when there is none.
FirstMatch(items, observer) ==
    IF \E i \in 1..Len(items) : items[i].observer = observer
    THEN CHOOSE i \in 1..Len(items) :
            /\ items[i].observer = observer
            /\ \A j \in 1..(i - 1) : items[j].observer # observer
    ELSE 0

\* items.splice(i - 1, 1)
Splice(items, i) == SubSeq(items, 1, i - 1) \o SubSeq(items, i + 1, Len(items))

\* A function's .length is 1, and its [0] is undefined: reading .observer of
\* it throws a TypeError.
doUnsubscribe(ev, eventName, observer) ==
    IF eventName # NoName /\ In(ev, eventName)
    THEN LET val == Get(ev, eventName) IN
         IF val.kind = "array"
         THEN IF FirstMatch(val.items, observer) # 0
              THEN Result(Put(ev, eventName,
                              Array(Splice(val.items, FirstMatch(val.items, observer)))),
                          FALSE)
              ELSE Result(ev, FALSE)
         ELSE Result(ev, Length(val) > 0)
    ELSE Result(ev, FALSE)

\* value.filter(subscription => subscription.observer !== observer)
Filter(items, observer) == SelectSeq(items, LAMBDA s : s.observer # observer)

\* for (const [key, value] of Object.entries(this.events)) ...: the entries
\* from the k-th on.  A value that is no array has no .filter: TypeError.
RECURSIVE filterEach(_, _, _)
filterEach(ev, k, observer) ==
    IF k > Len(ev) THEN Result(ev, FALSE)
    ELSE IF ev[k].val.kind = "array"
    THEN filterEach([ev EXCEPT ![k].val = Array(Filter(ev[k].val.items, observer))],
                    k + 1, observer)
    ELSE Result(ev, TRUE)

doUnsubscribeObserver(ev, observer) ==
    IF observer # NoObserver THEN filterEach(ev, 1, observer) ELSE Result(ev, FALSE)

\* An initialize that starts the registry over: this.events = { "default": [] }.
doInitializeFresh(ev) == <<[key |-> "default", val |-> [kind |-> "array", items |-> <<>>]]>>

\* An initialize that empties the first bucket only.
doInitializeFirst(ev) ==
    [i \in 1..Len(ev) |->
        IF i = 1 THEN [key |-> ev[i].key, val |-> [kind |-> "array", items |-> <<>>]]
        ELSE ev[i]]

\* for (let listener in this.events) this.events[listener] = []: the own
\* properties (those of Object.prototype are not enumerable).
doInitialize(ev) ==
    [i \in 1..Len(ev) |-> [key |-> ev[i].key, val |-> Array(<<>>)]]

(***************************************************************************)
(* pubsub.isSubscribed, pubsub.isSubscribedByWho                           *)
(***************************************************************************)
isSubscribed(ev, eventName) ==
    In(ev, eventName) /\ Length(Get(ev, eventName)) > 0

isSubscribedByWho(ev, eventName) ==
    IF In(ev, eventName) THEN Get(ev, eventName) ELSE Null

(***************************************************************************)
(* pubsub.publishRemotely, pubsub.publish                                  *)
(***************************************************************************)
\* The last i with frames[i].location.href == observer, 0 when there is none.
LastFrame(frames, observer) ==
    IF \E i \in 1..Len(frames) : frames[i].href = observer
    THEN CHOOSE i \in 1..Len(frames) :
            /\ frames[i].href = observer
            /\ \A j \in (i + 1)..Len(frames) : frames[j].href # observer
    ELSE 0

\* The postMessage calls publishRemotely(info, data) makes, and whether it
\* throws.  `data` is not used by the source.
publishRemotely(info, data, win) ==
    LET child == LastFrame(win.frames, info.observer) IN
    IF \E i \in 1..Len(win.frames) : win.frames[i].crossOrigin
    THEN [posted |-> <<>>, threw |-> TRUE]
    ELSE IF child # 0 /\ win.frames[child].postMessage
    THEN [posted |-> <<[to |-> "child", message |-> info, targetOrigin |-> "origin"]>>,
          threw |-> FALSE]
    ELSE IF win.opener = "open"
    THEN [posted |-> <<[to |-> "opener", message |-> info, targetOrigin |-> "*"]>>,
          threw |-> FALSE]
    ELSE [posted |-> <<>>, threw |-> FALSE]

\* What a call of a function leaves: the registry, whether it threw, and the
\* deliveries and postMessage calls made by a publish it called.
Returned(ev, t) == [events |-> ev, threw |-> t, calls |-> <<>>, posted |-> <<>>]

RECURSIVE doPublish(_, _, _, _)

\* instance.callback(data): what the function does to the registry, and
\* whether it throws.
invoke(ev, eventName, instance, data, win) ==
    CASE instance.callback = "hOk" -> Returned(ev, FALSE)
      [] instance.callback = "hThrow" -> Returned(ev, TRUE)
      [] instance.callback = "hUnsub" ->
            Returned(doUnsubscribe(ev, eventName, instance.observer).events, FALSE)
      [] instance.callback = "hUnsubThrow" ->
            Returned(doUnsubscribe(ev, eventName, instance.observer).events, TRUE)
      [] instance.callback = "hPublish" ->
            IF data # NestedData
            THEN doPublish(ev, NestedEvent, NestedData, win)
            ELSE Returned(ev, FALSE)
      [] instance.callback = "hSubscribe" ->
            LET r == doSubscribe(ev, eventName, instance.observer, instance.callback)
            IN  Returned(r.events, r.threw)
      [] instance.callback = "hSubMultiple" ->
            LET r == doSubscribeMultiple(ev, NamesArray(<<eventName>>),
                                         instance.observer, instance.callback)
            IN  Returned(r.events, r.threw)

\* The body of the try block for one record: the registry, the deliveries and
\* the postMessage calls after it, and whether it threw.
deliver(st, eventName, instance, data, win) ==
    IF "payload" \in DOMAIN instance
    THEN LET r == publishRemotely(instance, data, win) IN
         [events |-> st.events,
          calls |-> Append(st.calls, [via |-> "publishRemotely", instance |-> instance,
                                      data |-> data]),
          posted |-> st.posted \o r.posted,
          threw |-> r.threw]
    ELSE LET r == invoke(st.events, eventName, instance, data, win) IN
         [events |-> r.events,
          calls |-> Append(st.calls, [via |-> "callback", instance |-> instance,
                                      data |-> data]) \o r.calls,
          posted |-> st.posted \o r.posted,
          threw |-> r.threw]

\* try { ... } catch (err) { console.warn(...) }: the throw ends there.
tryCatch(st) == [st EXCEPT !.threw = FALSE]

\* A forEach that visits the indices from the last to the first.
RECURSIVE forEachBackwards(_, _, _, _, _, _)
forEachBackwards(st, eventName, data, win, k, len) ==
    IF k > len \/ st.threw THEN st
    ELSE IF len + 1 - k > Len(Bucket(st.events, eventName))
    THEN forEachBackwards(st, eventName, data, win, k + 1, len)
    ELSE forEachBackwards(
            tryCatch(deliver(st, eventName, Bucket(st.events, eventName)[len + 1 - k],
                             data, win)),
            eventName, data, win, k + 1, len)

\* A forEach under which a publish made by a handler is queued: its
\* deliveries come after those of the publish that is going on.
RECURSIVE forEachQueued(_, _, _, _, _, _)
forEachQueued(st, eventName, data, win, k, len) ==
    IF k > len \/ st.threw THEN st
    ELSE IF k > Len(Bucket(st.events, eventName))
    THEN forEachQueued(st, eventName, data, win, k + 1, len)
    ELSE LET r == tryCatch(deliver(st, eventName, Bucket(st.events, eventName)[k],
                                   data, win))
         IN  forEachQueued(
                [r EXCEPT !.calls = SelectSeq(r.calls, LAMBDA c : c.data = data)
                                    \o SelectSeq(r.calls, LAMBDA c : c.data # data)],
                eventName, data, win, k + 1, len)

\* this.events[eventName].forEach(function (instance) {...}), from index k on.
\* forEach reads the length once (len) and then visits each index k < len
\* that the array still has, reading the element at that time; the handlers
\* here change the array in place (splice), so the array visited is the one
\* events[eventName] holds.
RECURSIVE forEach(_, _, _, _, _, _)
forEach(st, eventName, data, win, k, len) ==
    IF k > len \/ st.threw THEN st
    ELSE IF k > Len(Bucket(st.events, eventName))
    THEN forEach(st, eventName, data, win, k + 1, len)
    ELSE forEach(tryCatch(deliver(st, eventName, Bucket(st.events, eventName)[k], data, win)),
                 eventName, data, win, k + 1, len)

\* A function is truthy and has no .forEach: TypeError.
doPublish(ev, eventName, data, win) ==
    LET st == [events |-> ev, calls |-> <<>>, posted |-> <<>>, threw |-> FALSE] IN
    IF Truthy(Get(ev, eventName))
    THEN IF Get(ev, eventName).kind = "array"
         THEN forEach(st, eventName, data, win, 1, Len(Bucket(ev, eventName)))
         ELSE [st EXCEPT !.threw = TRUE]
    ELSE st

\* The record of a call: its name, its arguments, and the number of records
\* the registry held when it was made.
Call(op, args) == [op |-> op, args |-> args, had |-> TotalRecords(events)]

(***************************************************************************)
(* pubsub.initPostMessaging: the "message" listener                        *)
(***************************************************************************)
\* A dotted path, given as its segments.
Path(segments) == segments

\* Bodies of inbound messages (event.data), by name.  A plain object is given
\* by its own fields; the other bodies are a string, null and an array.
Object(fields) == [tag |-> "object", fields |-> fields]
MessageBodies ==
    [mString |-> [tag |-> "string", fields |-> [length |-> 5]],
     mNull |-> [tag |-> "null", fields |-> [length |-> 0]],
     mArray |-> [tag |-> "array", fields |-> [length |-> 0]],
     mSubscribe |->
        Object([observer |-> "u", method |-> Path(<<"app", "pubsub", "subscribe">>),
                args |-> "a"]),
     mSubscribeMultiple |->
        Object([observer |-> "u",
                method |-> Path(<<"app", "PubSub", "subscribeMultiple">>),
                args |-> "a"]),
     mSubscribeLocal |->
        Object([observer |-> "x", method |-> Path(<<"app", "pubsub", "subscribe">>),
                args |-> "a"]),
     mUnsubscribe |->
        Object([observer |-> "u", method |-> Path(<<"app", "pubsub", "unsubscribe">>),
                args |-> "a"]),
     mUnsubscribeObserver |->
        Object([observer |-> "u",
                method |-> Path(<<"app", "pubsub", "unsubscribeObserver">>),
                args |-> "x"]),
     mPublish |->
        Object([observer |-> "u", method |-> Path(<<"app", "pubsub", "publish">>),
                args |-> "a"]),
     mMethod |->
        Object([observer |-> "u", method |-> Path(<<"app", "auth", "getToken">>)]),
     mGetter |->
        Object([observer |-> "u", getter |-> Path(<<"app", "app", "getVersion">>)]),
     mRest |->
        Object([observer |-> "u", rest |-> Path(<<"app", "restclient", "get">>)]),
     mMethodGetter |->
        Object([observer |-> "u", method |-> Path(<<"app", "pubsub", "subscribe">>),
                args |-> "a", getter |-> Path(<<"app", "app", "getVersion">>)]),
     mResponse |->
        Object([type |-> "authorization_response", response |-> 1]),
     mResponseEmpty |->
        Object([type |-> "oauth2_authorization_response"]),
     mResponseMethod |->
        Object([type |-> "authorization_response", response |-> 2, observer |-> "u",
                method |-> Path(<<"app", "pubsub", "subscribe">>), args |-> "a"]),
     mOtherType |->
        Object([type |-> "ping", observer |-> "u",
                getter |-> Path(<<"app", "app", "getVersion">>)]),
     mEmpty |-> Object([unknown |-> 0])]
Messages ==
    {"mString", "mNull", "mArray", "mSubscribe", "mSubscribeMultiple", "mSubscribeLocal",
     "mUnsubscribe", "mUnsubscribeObserver", "mPublish", "mMethod", "mGetter", "mRest",
     "mMethodGetter", "mResponse", "mResponseEmpty", "mResponseMethod", "mOtherType",
     "mEmpty"}

\* A MessageEvent.
Event(isTrusted, data) == [isTrusted |-> isTrusted, data |-> data]

\* The host page: whether the global `app` is defined, and what a call of
\* executeDotNotation does ("throws" includes its being absent: pubsub.js
\* does not define it).
Host(app, executeDotNotation) == [app |-> app, executeDotNotation |-> executeDotNotation]
Hosts == {Host(TRUE, "returns"), Host(TRUE, "throws"), Host(FALSE, "throws")}

\* event.data.response || {} : the empty object is written EmptyObject.
EmptyObject == 3

\* "field" in event.data; throws a TypeError when event.data is null or a
\* primitive.
InThrows(body) == body.tag \in {"string", "null"}
HasField(body, field) == body.tag = "object" /\ field \in DOMAIN body.fields
\* event.data.field, as an argument of subscribe: a missing field is undefined.
FieldOr(body, field, undefined) ==
    IF HasField(body, field) THEN body.fields[field] ELSE undefined

\* /authorization_response/.test(type)
TestAuthorizationResponse(type) ==
    type \in {"authorization_response", "oauth2_authorization_response"}
\* /pubsub/i.test(method)
LowerSegment(segment) == IF segment = "PubSub" THEN "pubsub" ELSE segment
TestPubsub(method) == \E i \in 1..Len(method) : LowerSegment(method[i]) = "pubsub"
\* method.split(".").pop()
Pop(method) == method[Len(method)]

\* What one run of the listener leaves.
Heard(ev, cs, ps, t) == [events |-> ev, calls |-> cs, posted |-> ps, threw |-> t]

\* self.publishRemotely({ response, observer, info: event.data }) inside try.
reply(ev, id, body, win) ==
    LET info == [observer |-> FieldOr(body, "observer", NoObserver),
                 response |-> "response", info |-> id]
    IN  Heard(ev, <<>>, publishRemotely(info, info, win).posted, FALSE)

\* try { response = this.executeDotNotation(...); self.publishRemotely(...) }
\* catch (e) { console.error(...) }
resolve(ev, id, body, win, host) ==
    IF host.executeDotNotation = "returns"
    THEN reply(ev, id, body, win)
    ELSE Heard(ev, <<>>, <<>>, FALSE)

\* The calls that are one-directional: switch (method) { ... }.
control(ev, id, body) ==
    LET method == Pop(body.fields.method)
        args == FieldOr(body, "args", NoName)
        observer == FieldOr(body, "observer", NoObserver)
        r == CASE method \in {"subscribe", "subscribeMultiple"} ->
                    doSubscribe(ev, args, observer, id)
               [] method = "unsubscribe" ->
                    doSubscribe(ev, args, observer, "undefined")
               [] method = "unsubscribeObserver" ->
                    doSubscribe(ev, IF observer = NoObserver THEN NoName ELSE observer,
                                NoObserver, "undefined")
               [] OTHER -> Result(ev, FALSE)
    IN  Heard(r.events, <<>>, <<>>, r.threw)

\* A routing that looks for a method, a getter and a rest before the type.
routeMethodFirst(ev, id, win, host) ==
    LET body == MessageBodies[id] IN
    IF InThrows(body) THEN Heard(ev, <<>>, <<>>, TRUE)
    ELSE IF HasField(body, "method")
    THEN IF TestPubsub(body.fields.method)
         THEN control(ev, id, body)
         ELSE resolve(ev, id, body, win, host)
    ELSE IF HasField(body, "getter")
    THEN resolve(ev, id, body, win, host)
    ELSE IF HasField(body, "rest")
    THEN Heard(ev, <<>>, <<>>, FALSE)
    ELSE IF HasField(body, "type") /\ TestAuthorizationResponse(body.fields.type)
    THEN LET r == doPublish(ev, "postMessage", FieldOr(body, "response", EmptyObject), win)
         IN  Heard(r.events, r.calls, r.posted, r.threw \/ ~host.app)
    ELSE Heard(ev, <<>>, <<>>, FALSE)

\* The body of the listener for a trusted event.
route(ev, id, win, host) ==
    LET body == MessageBodies[id] IN
    IF InThrows(body) THEN Heard(ev, <<>>, <<>>, TRUE)
    ELSE IF HasField(body, "type") /\ TestAuthorizationResponse(body.fields.type)
    THEN LET r == doPublish(ev, "postMessage", FieldOr(body, "response", EmptyObject), win)
         IN  Heard(r.events, r.calls, r.posted, r.threw \/ ~host.app)
    ELSE IF body.tag = "object"
    THEN IF HasField(body, "method")
         THEN IF TestPubsub(body.fields.method)
              THEN control(ev, id, body)
              ELSE resolve(ev, id, body, win, host)
         ELSE IF HasField(body, "getter")
         THEN resolve(ev, id, body, win, host)
         ELSE IF HasField(body, "rest")
         THEN Heard(ev, <<>>, <<>>, FALSE)
         ELSE Heard(ev, <<>>, <<>>, FALSE)
    ELSE Heard(ev, <<>>, <<>>, FALSE)

\* A listener that does not look at isTrusted.
listenerTrusting(ev, event, win, host) == route(ev, event.data, win, host)

\* (event) => { if (!!event && "isTrusted" in event && !!event.isTrusted) ... }
listener(ev, event, win, host) ==
    IF event.isTrusted
    THEN route(ev, event.data, win, host)
    ELSE Heard(ev, <<>>, <<>>, FALSE)

\* The dispatch of one message event to the n listeners that were added, in
\* the order they were added; an exception of one listener is reported to the
\* host and the next listener runs.
RECURSIVE dispatchEvent(_, _, _, _, _)
dispatchEvent(st, n, event, win, host) ==
    IF n = 0 THEN st
    ELSE LET r == listener(st.events, event, win, host) IN
         dispatchEvent(Heard(r.events, st.calls \o r.calls, st.posted \o r.posted,
                             st.threw \/ r.threw),
                       n - 1, event, win, host)

\* A seeding that keeps a bucket that is there:
\* this.events["postMessage"] = this.events["postMessage"] || [].
seedPostMessageKeep(ev) ==
    IF Truthy(Get(ev, "postMessage")) THEN ev
    ELSE Put(ev, "postMessage", [kind |-> "array", items |-> <<>>])

\* this.events["postMessage"] = [];
seedPostMessage(ev) == Put(ev, "postMessage", Array(<<>>))

(***************************************************************************)
(* The API calls as actions.                                               *)
(***************************************************************************)
subscribe(eventName, observer, callback) ==
    LET r == doSubscribe(events, eventName, observer, callback) IN
    /\ TotalRecords(r.events) <= MaxRecords
    /\ events' = r.events
    /\ threw' = r.threw
    /\ calls' = <<>>
    /\ posted' = <<>>
    /\ last' = Call("subscribe", <<eventName, observer, callback>>)
    /\ UNCHANGED listeners

subscribeMultiple(eventNames, observer, callback) ==
    LET r == doSubscribeMultiple(events, eventNames, observer, callback) IN
    /\ TotalRecords(events) + Len(eventNames.items) <= MaxRecords + 1
    /\ TotalRecords(r.events) <= MaxRecords
    /\ events' = r.events
    /\ threw' = r.threw
    /\ calls' = <<>>
    /\ posted' = <<>>
    /\ last' = Call("subscribeMultiple", <<eventNames, observer, callback>>)
    /\ UNCHANGED listeners

unsubscribe(eventName, observer) ==
    LET r == doUnsubscribe(events, eventName, observer) IN
    /\ events' = r.events
    /\ threw' = r.threw
    /\ calls' = <<>>
    /\ posted' = <<>>
    /\ last' = Call("unsubscribe", <<eventName, observer>>)
    /\ UNCHANGED listeners

unsubscribeObserver(observer) ==
    LET r == doUnsubscribeObserver(events, observer) IN
    /\ events' = r.events
    /\ threw' = r.threw
    /\ calls' = <<>>
    /\ posted' = <<>>
    /\ last' = Call("unsubscribeObserver", <<observer>>)
    /\ UNCHANGED listeners

publish(eventName, data, win) ==
    LET r == doPublish(events, eventName, data, win) IN
    /\ TotalRecords(events) <= MaxRecords
    /\ events' = r.events
    /\ threw' = r.threw
    /\ calls' = r.calls
    /\ posted' = r.posted
    /\ last' = Call("publish", <<eventName, data>>)
    /\ UNCHANGED listeners

initialize ==
    /\ events' = doInitialize(events)
    /\ threw' = FALSE
    /\ calls' = <<>>
    /\ posted' = <<>>
    /\ last' = Call("initialize", <<>>)
    /\ UNCHANGED listeners

\* initPostMessaging: window.addEventListener("message", ...), then
\* this.events["postMessage"] = [].
initPostMessaging ==
    /\ listeners < MaxListeners
    /\ listeners' = listeners + 1
    /\ events' = seedPostMessage(events)
    /\ threw' = FALSE
    /\ calls' = <<>>
    /\ posted' = <<>>
    /\ last' = Call("initPostMessaging", <<>>)

\* A message event arrives at the window, after initPostMessaging was called.
receive(event, win, host) ==
    \E r \in {dispatchEvent(Heard(events, <<>>, <<>>, FALSE), listeners, event, win, host)} :
    /\ listeners >= 1
    /\ TotalRecords(r.events) <= MaxRecords
    /\ events' = r.events
    /\ threw' = r.threw
    /\ calls' = r.calls
    /\ posted' = r.posted
    /\ last' = Call("receive", <<event.isTrusted, event.data>>)
    /\ UNCHANGED listeners

(***************************************************************************)
(* The specifications.                                                     *)
(***************************************************************************)
\* events: { "default": [] }
Init ==
    /\ events = <<[key |-> "default", val |-> Array(<<>>)]>>
    /\ listeners = 0
    /\ calls = <<>>
    /\ posted = <<>>
    /\ threw = FALSE
    /\ last = Call("none", <<>>)

\* The API calls, with their arguments drawn from the given sets: event
\* names, (observer, callback) pairs, eventNames arrays, observers, windows.
Api(names, pairs, arrays, observers, wins) ==
    \/ \E e \in names, a \in pairs : subscribe(e, a[1], a[2])
    \/ \E n \in arrays, a \in pairs : subscribeMultiple(n, a[1], a[2])
    \/ \E e \in names, o \in observers : unsubscribe(e, o)
    \/ \E o \in observers : unsubscribeObserver(o)
    \/ \E e \in names, d \in Data, w \in wins : publish(e, d, w)
    \/ initialize

\* The registry: every kind of event name, records of two observers.
RegistryPairs ==
    {<<"x", "hOk">>, <<"x", "hThrow">>, <<"u", "undefined">>,
     <<"x", "undefined">>, <<"none", "undefined">>}
RegistryArrays ==
    {NamesArray(<<>>), NamesArray(<<"a">>), NamesArray(<<"default", "a">>),
     NamesArray(<<"a", "a">>), NamesArray(<<"a", "hasOwnProperty", "default">>)}
    \cup NotAnArray
Next ==
    Api(EventNameArgs, RegistryPairs, RegistryArrays, {"x", "u", NoObserver}, {NoWindows})

Spec == Init /\ [][Next]_vars

\* Dispatch: every kind of record, under every kind of window.
DispatchPairs ==
    {<<"x", "hOk">>, <<"x", "hThrow">>, <<"x", "hUnsub">>, <<"x", "hUnsubThrow">>,
     <<"u", "hOk">>, <<"u", "undefined">>, <<"V", "undefined">>, <<"x", "undefined">>}
DispatchArrays == {NamesArray(<<"a">>), NamesArray(<<"a", "default">>)}
DispatchWindows ==
    {NoWindows,
     Window(<<Frame("u", FALSE)>>, "none"),
     Window(<<Frame("w", FALSE)>>, "open"),
     Window(<<Frame("w", TRUE)>>, "open"),
     Window(<<Frame("u", TRUE)>>, "open"),
     Window(<<>>, "closed")}
NextDispatch ==
    Api(PlainNames, DispatchPairs, DispatchArrays, {"x", "u"}, DispatchWindows)

SpecDispatch == Init /\ [][NextDispatch]_vars

\* Messaging: the API together with initPostMessaging.
MessagingPairs == {<<"x", "hOk">>, <<"u", "undefined">>}
MessagingArrays == {NamesArray(<<"a", "postMessage">>)}
NextMessaging ==
    \/ Api({"a", "postMessage", "hasOwnProperty"}, MessagingPairs,
           MessagingArrays, {"x"}, {NoWindows})
    \/ initPostMessaging

SpecMessaging == Init /\ [][NextMessaging]_vars

\* Inbound messages: initPostMessaging, local subscribers, and message events.
InboundPairs == {<<"x", "hOk">>}
InboundArrays == {NamesArray(<<"postMessage">>)}
InboundWindows == {Window(<<>>, "open")}
NextInbound ==
    \/ Api({"a", "postMessage"}, InboundPairs, InboundArrays, {"x"}, {NoWindows})
    \/ initPostMessaging
    \/ \E t \in BOOLEAN, m \in Messages, w \in InboundWindows, h \in Hosts :
            receive(Event(t, m), w, h)

SpecInbound == Init /\ [][NextInbound]_vars

\* Re-entrancy: handlers that publish or subscribe while a publish is going on.
ReentrantPairs ==
    {<<"x", "hOk">>, <<"x", "hThrow">>, <<"x", "hPublish">>, <<"x", "hSubscribe">>,
     <<"x", "hSubMultiple">>}
ReentrantArrays == {NamesArray(<<"a">>)}
NextReentrant ==
    Api(PlainNames, ReentrantPairs, ReentrantArrays, {"x"}, {NoWindows})

SpecReentrant == Init /\ [][NextReentrant]_vars

(***************************************************************************)
(* Properties.                                                             *)
(***************************************************************************)
\* A record whose function calls back into the registry when invoked.
Touches(instance) ==
    "callback" \in DOMAIN instance /\ instance.callback \in {"hUnsub", "hUnsubThrow"}

IsPrefix(s, t) == Len(s) <= Len(t) /\ SubSeq(t, 1, Len(s)) = s

\* The mechanism a record is delivered by.
Mechanism(instance) ==
    IF "payload" \in DOMAIN instance THEN "publishRemotely" ELSE "callback"

\* A subscribe or subscribeMultiple only appends: every bucket keeps its
\* records, in order, in front of the new ones.
C1_InsertionOrder ==
    last'.op \in {"subscribe", "subscribeMultiple"} =>
        \A n \in EventNames : IsPrefix(Bucket(events, n), Bucket(events', n))

\* A publish(e, d) over records that do not touch the registry makes one
\* delivery per record of e's bucket, in bucket order, each with d.
C1_OncePerRecord ==
    last'.op = "publish" =>
        LET e == last'.args[1]
            d == last'.args[2]
            b == Bucket(events, e)
        IN  (\A i \in 1..Len(b) : ~Touches(b[i])) =>
                /\ Len(calls') = Len(b)
                /\ \A i \in 1..Len(b) :
                        calls'[i] = [via |-> Mechanism(b[i]), instance |-> b[i], data |-> d]

\* C1: whatever subscribe and subscribeMultiple calls were made, a publish(e, d)
\* whose handlers do not touch the registry invokes the records of e's bucket
\* exactly once each, in subscription order, each with d; the duplicate records
\* of one observer both fire.
C1_PublishInOrder == [][C1_InsertionOrder /\ C1_OncePerRecord]_vars

\* C1's case: a publish has just delivered to two equal records of one
\* observer, and to a bucket whose two records differ.
C1_Witness ==
    /\ last.op = "publish"
    /\ Len(calls) = 2
    /\ calls[1].instance = calls[2].instance
    /\ calls[1].data = 2

\* Whether the delivery of a record throws: the handler does, or the remote
\* send does under the windows of the publish.
DeliveryThrows(instance, data, win) ==
    IF "payload" \in DOMAIN instance
    THEN publishRemotely(instance, data, win).threw
    ELSE instance.callback \in {"hThrow", "hUnsubThrow"}

\* The records of b after the i-th are the last deliveries of cs, each with d.
DeliveredAfter(b, i, cs, d) ==
    LET n == Len(b) - i IN
    /\ Len(cs) >= n
    /\ \A j \in 1..n :
            /\ cs[Len(cs) - n + j].instance = b[i + j]
            /\ cs[Len(cs) - n + j].data = d

\* C2: when the delivery of the i-th record of the bucket throws during
\* publish(e, d), every record after it is still delivered d, and publish
\* returns without throwing.
C2_Isolation ==
    [][last'.op = "publish" =>
        \A w \in DispatchWindows :
            publish(last'.args[1], last'.args[2], w) =>
                LET b == Bucket(events, last'.args[1]) IN
                \A i \in 1..Len(b) :
                    DeliveryThrows(b[i], last'.args[2], w) =>
                        ~threw' /\ DeliveredAfter(b, i, calls', last'.args[2])]_vars

\* The names of the own properties of the registry, in property order.
KeyOrder(ev) == [i \in 1..Len(ev) |-> ev[i].key]

\* Number of records of `observer` in a bucket.
Count(b, observer) == Cardinality({i \in 1..Len(b) : b[i].observer = observer})

\* The records delivered to, in delivery order.
Instances(cs) == [i \in 1..Len(cs) |-> cs[i].instance]

\* b without its i-th record.
Without(b, i) == [j \in 1..(Len(b) - 1) |-> IF j < i THEN b[j] ELSE b[j + 1]]

Others(b, observer) == SelectSeq(b, LAMBDA r : r.observer # observer)

\* C4: unsubscribeObserver(o) with a non-empty o removes every record of o from
\* every bucket and leaves the records of the other observers in place, in
\* their order.
C4_RemovesEverywhere ==
    [][(last'.op = "unsubscribeObserver" /\ last'.args[1] # NoObserver) =>
        /\ KeyOrder(events') = KeyOrder(events)
        /\ \A n \in EventNames :
                Bucket(events', n) = Others(Bucket(events, n), last'.args[1])]_vars

\* The observers that start with "http", in either case.
HttpObservers == {"u", "V"}

\* The record subscribe(e, o, c) registers, when it registers one.
Registers(o, c) == c \in Handlers \/ o \in HttpObservers
RecordOf(o, c) ==
    IF c \in Handlers THEN [observer |-> o, callback |-> c]
    ELSE [observer |-> o, payload |-> c]

\* C5: after initialize() every known event name is still known, in place;
\* isSubscribed is false and isSubscribedByWho is an empty sequence for each;
\* and a subscribe then a publish on any of them delivers to exactly the
\* record just subscribed.
C5_ResetKeepsShape ==
    [][last'.op = "initialize" =>
        /\ KeyOrder(events') = KeyOrder(events)
        /\ \A n \in Keys(events) :
            /\ ~isSubscribed(events', n)
            /\ isSubscribedByWho(events', n) = Array(<<>>)
            /\ \A o \in ObserverArgs, c \in CallbackArgs, d \in Data :
                \A after \in {doSubscribe(events', n, o, c).events} :
                \A cs \in {doPublish(after, n, d, NoWindows).calls} :
                    IF Registers(o, c)
                    THEN cs = <<[via |-> Mechanism(RecordOf(o, c)),
                                 instance |-> RecordOf(o, c), data |-> d]>>
                    ELSE cs = <<>>]_vars

\* C5's case: initialize() has emptied a registry of three names that held two
\* records.
C5_Witness ==
    /\ last.op = "initialize"
    /\ last.had = 2
    /\ Len(events) = 3
    /\ TotalRecords(events) = 0

\* C6: the set of known event names never shrinks: it always holds "default",
\* and a name once a key stays one, at its place.
C6_KeysNeverShrink ==
    [][/\ "default" \in Keys(events)
       /\ "default" \in Keys(events')
       /\ IsPrefix(KeyOrder(events), KeyOrder(events'))]_vars

\* C6's case: initialize() on a registry that holds, besides "default", a name
\* created by a subscription and the one created by initPostMessaging.
C6_Witness ==
    /\ last.op = "initialize"
    /\ last.had >= 1
    /\ listeners >= 1
    /\ {"default", "a", "postMessage"} \subseteq Keys(events)

\* C7: an event name that is not a key of the registry is safe to use:
\* publish and unsubscribe on it neither throw nor change anything nor deliver,
\* isSubscribed is false and isSubscribedByWho is null for it; a known but
\* empty event answers isSubscribedByWho with an empty sequence.
C7_UnknownNameSafe ==
    [][/\ (last'.op \in {"publish", "unsubscribe"}
            /\ last'.args[1] \in EventNames \ Keys(events)) =>
            /\ ~threw'
            /\ events' = events
            /\ calls' = <<>>
            /\ ~isSubscribed(events', last'.args[1])
            /\ isSubscribedByWho(events', last'.args[1]) = Null
       /\ \A n \in Keys(events') :
            Get(events', n) = Array(<<>>) =>
                isSubscribedByWho(events', n) = Array(<<>>)]_vars

\* The calls the interface treats as usage errors.
UsageError(call) ==
    \/ /\ call.op = "subscribe"
       /\ \/ call.args[1] = NoName
          \/ call.args[3] \notin Handlers /\ call.args[2] \notin HttpObservers
    \/ /\ call.op = "subscribeMultiple"
       /\ \/ call.args[1].tag # "array"
          \/ call.args[1].items = <<>>
          \/ call.args[3] \notin Handlers
    \/ call.op = "unsubscribe" /\ call.args[1] = NoName
    \/ call.op = "unsubscribeObserver" /\ call.args[1] = NoObserver

\* C8: a usage error (subscribe without an event name, or with a callback that
\* is not callable and an observer that is no URL; subscribeMultiple with a
\* value that is not an array, an empty array, or a callback that is not
\* callable; unsubscribe without an event name; unsubscribeObserver without an
\* observer) leaves the registry as it was and does not throw.
C8_UsageErrorsAreNoOps ==
    [][UsageError(last') => events' = events /\ ~threw']_vars

\* C8's case: subscribeMultiple with a URL observer and a callback that is not
\* callable, on a registry that holds records, returned without registering.
C8_Witness ==
    /\ last.op = "subscribeMultiple"
    /\ last.args = <<NamesArray(<<"a">>), "u", "undefined">>
    /\ last.had = 2
    /\ TotalRecords(events) = 2
    /\ ~threw

\* How many times a name occurs in a list of names.
Occurrences(names, n) == Cardinality({i \in 1..Len(names) : names[i] = n})
Repeat(record, k) == [i \in 1..k |-> record]

\* C9: subscribeMultiple with a non-empty array of names and a callable
\* appends the record (observer, callback) to the sequence of each named event;
\* publishing a named event then delivers to that record, and unsubscribing the
\* observer from one named event leaves its records on the other names.
C9_SubscribesEachName ==
    [][(/\ last'.op = "subscribeMultiple"
        /\ last'.args[1].tag = "array"
        /\ last'.args[1].items # <<>>
        /\ last'.args[3] \in Handlers) =>
        LET names == last'.args[1].items
            o == last'.args[2]
            record == [observer |-> o, callback |-> last'.args[3]]
        IN  /\ ~threw'
            /\ \A n \in EventNames :
                Bucket(events', n) =
                    Bucket(events, n) \o Repeat(record, Occurrences(names, n))
            /\ \A i \in 1..Len(names), d \in Data :
                \A cs \in {doPublish(events', names[i], d, NoWindows).calls} :
                    \E k \in 1..Len(cs) :
                        cs[k] = [via |-> "callback", instance |-> record, data |-> d]
            /\ \A i, j \in 1..Len(names) :
                names[i] # names[j] =>
                    \A after \in {doUnsubscribe(events', names[i], o).events} :
                        Bucket(after, names[j]) = Bucket(events', names[j])]_vars

\* C10: subscribe with an event name and a callable registers a local record
\* (observer, callback), whatever the observer; with a URL observer and a
\* callback that is not callable it registers a remote record whose payload is
\* that value; publish delivers to local records by calling them and to remote
\* ones through publishRemotely, and never posts for a local record.
C10_LocalOrRemote ==
    [][/\ (last'.op = "subscribe" /\ last'.args[1] # NoName
            /\ Registers(last'.args[2], last'.args[3])) =>
            /\ ~threw'
            /\ Bucket(events', last'.args[1]) =
                Append(Bucket(events, last'.args[1]),
                       RecordOf(last'.args[2], last'.args[3]))
       /\ last'.op = "publish" =>
            /\ \A k \in 1..Len(calls') :
                calls'[k].via =
                    IF "callback" \in DOMAIN calls'[k].instance
                    THEN "callback" ELSE "publishRemotely"
            /\ \A k \in 1..Len(posted') : "payload" \in DOMAIN posted'[k].message]_vars

\* What a send of a remote record should post under a window: to the child
\* frame that is at the record's observer URL, else to the open opener, else
\* nothing.
ExpectedPost(record, win) ==
    IF \E i \in 1..Len(win.frames) :
            win.frames[i].href = record.observer /\ win.frames[i].postMessage
    THEN <<[to |-> "child", message |-> record, targetOrigin |-> "origin"]>>
    ELSE IF win.opener = "open"
    THEN <<[to |-> "opener", message |-> record, targetOrigin |-> "*"]>>
    ELSE <<>>

RECURSIVE ExpectedPosts(_, _)
ExpectedPosts(b, win) ==
    IF b = <<>> THEN <<>>
    ELSE (IF "payload" \in DOMAIN Head(b) THEN ExpectedPost(Head(b), win) ELSE <<>>)
         \o ExpectedPosts(Tail(b), win)

\* C11: each send of a remote record posts the record to at most one target:
\* to the child frame at the record's observer URL, with the page's origin,
\* when there is one; else to the opener, with "*", when there is an opener
\* that is not closed; else to nobody.  A publish posts nothing but what its
\* own sends post: nothing is kept from an earlier publish.
C11_OneTarget ==
    [][last'.op = "publish" =>
        \A w \in DispatchWindows :
            publish(last'.args[1], last'.args[2], w) =>
                LET b == Bucket(events, last'.args[1]) IN
                (\A i \in 1..Len(b) : ~Touches(b[i])) =>
                    posted' = ExpectedPosts(b, w)]_vars

\* C12: publish(e, d) works on a snapshot of e's bucket: every record that
\* was in the bucket when publish was called is invoked exactly once, in order,
\* also when a handler unsubscribes from e during the dispatch.
C12_Snapshot ==
    [][last'.op = "publish" =>
        Instances(calls') = Bucket(events, last'.args[1])]_vars

\* The records whose handler subscribes, and those whose handler publishes.
Subscribes(instance) ==
    "callback" \in DOMAIN instance /\ instance.callback \in {"hSubscribe", "hSubMultiple"}
Publishes(instance) ==
    "callback" \in DOMAIN instance /\ instance.callback = "hPublish"

\* The delivery of data to each record of a bucket, in order.
Deliveries(b, d) ==
    [i \in 1..Len(b) |-> [via |-> Mechanism(b[i]), instance |-> b[i], data |-> d]]

\* The deliveries of a publish of d on bucket b where each record whose
\* handler publishes on NestedEvent has that publish run to its end, over
\* bucket nested, before the next record of b.
RECURSIVE NestedLog(_, _, _)
NestedLog(b, d, nested) ==
    IF b = <<>> THEN <<>>
    ELSE <<[via |-> Mechanism(Head(b)), instance |-> Head(b), data |-> d]>>
         \o (IF Publishes(Head(b)) THEN Deliveries(nested, NestedData) ELSE <<>>)
         \o NestedLog(Tail(b), d, nested)

\* C13: publish is synchronous and re-entrant on the stack: when a handler
\* invoked by publish(e1) calls publish(e2), e2 = e1 included, every record of
\* e2 is attempted before the next record of e1, and publish(e1) returns after
\* all its own records were attempted; nothing is deferred.  (Stated for
\* registries whose handlers do not subscribe or unsubscribe.)
C13_NestedPublish ==
    [][last'.op = "publish" =>
        LET b == Bucket(events, last'.args[1])
            nested == Bucket(events, NestedEvent)
        IN  (\A i \in 1..Len(b \o nested) :
                ~Touches((b \o nested)[i]) /\ ~Subscribes((b \o nested)[i])) =>
                /\ calls' = NestedLog(b, last'.args[2], nested)
                /\ events' = events
                /\ ~threw']_vars

\* C13's case: publish("a", 1) with a handler that publishes "a" first and
\* another handler after it: the second handler got the nested publish's data
\* before the data of the publish that was going on.
C13_Witness ==
    /\ last.op = "publish"
    /\ last.args = <<"a", 1>>
    /\ Len(calls) = 4
    /\ calls[1].instance.callback = "hPublish" /\ calls[1].data = 1
    /\ calls[2].instance.callback = "hPublish" /\ calls[2].data = NestedData
    /\ calls[3].instance.callback = "hOk" /\ calls[3].data = NestedData
    /\ calls[4].instance.callback = "hOk" /\ calls[4].data = 1

\* C19: a record appended to e's bucket by a handler running inside
\* publish(e, d) is not invoked by that publish: the publish invokes the
\* records the bucket had, each once, and returns; the appended records are at
\* the end of the bucket and the next publish(e) invokes them after all the
\* earlier ones.  (Stated for buckets whose handlers do not publish or
\* unsubscribe.)
C19_AppendedNotInvoked ==
    [][last'.op = "publish" =>
        LET e == last'.args[1]
            b == Bucket(events, e)
        IN  (\A i \in 1..Len(b) : ~Touches(b[i]) /\ ~Publishes(b[i])) =>
                /\ calls' = Deliveries(b, last'.args[2])
                /\ Bucket(events', e) = b \o SelectSeq(b, Subscribes)
                /\ \A d \in Data :
                    \A cs \in {doPublish(events', e, d, NoWindows).calls} :
                        cs = Deliveries(Bucket(events', e), d)]_vars

\* C19's case: publish("a", d) invoked a handler that subscribes itself again
\* and another handler after it, and the bucket has grown by one record.
C19_Witness ==
    /\ last.op = "publish"
    /\ last.args[1] = "a"
    /\ last.had = 2
    /\ Len(calls) = 2
    /\ calls[1].instance.callback = "hSubscribe"
    /\ calls[2].instance.callback = "hOk"
    /\ Len(Bucket(events, "a")) = 3

\* The message event of a receive step.
Received(call) == Event(call.args[1], call.args[2])

\* C14: an inbound message that is not flagged as trusted is dropped with no
\* effect, whatever its body: the registry and the listeners are as before, no
\* handler is invoked, nothing is posted and nothing is thrown; so runs that
\* differ only in such messages go through the same registries and deliveries.
C14_UntrustedDropped ==
    [][(last'.op = "receive" /\ ~last'.args[1]) =>
        /\ events' = events
        /\ listeners' = listeners
        /\ calls' = <<>>
        /\ posted' = <<>>
        /\ ~threw']_vars

\* C14's case: an untrusted subscribe message arrived at two listeners, with
\* a local subscriber in the registry.
C14_Witness ==
    /\ last.op = "receive"
    /\ last.args = <<FALSE, "mSubscribe">>
    /\ listeners = 2
    /\ TotalRecords(events) = 1

\* C15: a trusted message {observer: U, method: "app.pubsub.unsubscribeObserver",
\* args: Z} removes the observer named by args from every bucket, leaves the
\* records of every other observer, and sends no reply.
C15_UnsubscribeObserverMessage ==
    [][(last'.op = "receive" /\ last'.args = <<TRUE, "mUnsubscribeObserver">>) =>
        /\ KeyOrder(events') = KeyOrder(events)
        /\ \A n \in Keys(events) :
            Bucket(events', n) =
                Others(Bucket(events, n), MessageBodies["mUnsubscribeObserver"].fields.args)
        /\ posted' = <<>>]_vars

\* C16: a trusted message whose method path contains "pubsub" is dispatched
\* to the operation its last segment names: "...pubsub.unsubscribe" with
\* observer U and args E removes U's first record from E's bucket and adds no
\* record to any bucket; "...pubsub.subscribe" with observer U and args E adds
\* a remote record for U to E's bucket (once per listener); neither replies.
C16_ControlDispatch ==
    [][/\ (last'.op = "receive" /\ last'.args = <<TRUE, "mUnsubscribe">>) =>
            LET b == Bucket(events, "a") IN
            /\ \A n \in Keys(events') \ {"a"} : Get(events', n) = Get(events, n)
            /\ Bucket(events', "a") =
                IF Count(b, "u") >= 1
                THEN Without(b, CHOOSE i \in 1..Len(b) :
                                    /\ b[i].observer = "u"
                                    /\ \A j \in 1..(i - 1) : b[j].observer # "u")
                ELSE b
            /\ posted' = <<>>
       /\ (last'.op = "receive" /\ last'.args = <<TRUE, "mSubscribe">>) =>
            /\ \A n \in Keys(events) \ {"a"} : Get(events', n) = Get(events, n)
            /\ Bucket(events', "a") =
                Bucket(events, "a")
                \o Repeat([observer |-> "u", payload |-> "mSubscribe"], listeners)
            /\ posted' = <<>>]_vars

\* C17: no trusted inbound message, whatever its body (an object, an object
\* without a known field, a string, null), makes the listener throw to the
\* host; and when the resolution of a method or a getter fails, nothing is
\* posted.
C17_ListenerNeverThrows ==
    [][(last'.op = "receive" /\ last'.args[1]) =>
        /\ ~threw'
        /\ \A w \in InboundWindows, h \in Hosts :
            (/\ receive(Received(last'), w, h)
             /\ h.executeDotNotation = "throws"
             /\ last'.args[2] \in {"mMethod", "mGetter", "mOtherType"}) =>
                posted' = <<>>]_vars

\* The data published for an authorization response.
ResponsePayload ==
    [mResponse |-> 1, mResponseEmpty |-> EmptyObject, mResponseMethod |-> 2]

RECURSIVE Times(_, _)
Times(n, seq) == IF n = 0 THEN <<>> ELSE seq \o Times(n - 1, seq)

\* C18: each trusted message with a plain-object body takes exactly one route,
\* by priority authorization-response type, method, getter, rest, not
\* understood.  A body whose type matches is only published on "postMessage"
\* (each subscriber of that event is invoked once per listener, with the
\* response or an empty object), also when it carries a method: no record is
\* added or removed and no reply is posted.  A body with a method and a getter
\* is handled as the method call only.  A body whose type does not match goes
\* by its other fields.
C18_OneRoute ==
    [][(last'.op = "receive" /\ last'.args[1]) =>
        /\ last'.args[2] \in DOMAIN ResponsePayload =>
            /\ calls' = Times(listeners,
                              Deliveries(Bucket(events, "postMessage"),
                                         ResponsePayload[last'.args[2]]))
            /\ events' = events
            /\ posted' = <<>>
        /\ last'.args[2] = "mMethodGetter" =>
            /\ Bucket(events', "a") =
                Bucket(events, "a")
                \o Repeat([observer |-> "u", payload |-> "mMethodGetter"], listeners)
            /\ calls' = <<>>
            /\ posted' = <<>>
        /\ last'.args[2] \in {"mOtherType", "mGetter"} =>
            /\ events' = events
            /\ calls' = <<>>
            /\ \A w \in InboundWindows, h \in Hosts :
                receive(Received(last'), w, h) =>
                    Len(posted') = IF h.executeDotNotation = "returns" /\ w.opener = "open"
                                   THEN listeners ELSE 0
        /\ last'.args[2] \in {"mEmpty", "mRest"} =>
            /\ events' = events
            /\ calls' = <<>>
            /\ posted' = <<>>]_vars

\* C18's case: an authorization response that also carries a subscribe method
\* was heard by one listener, and each of the two subscribers of "postMessage"
\* got the response; nothing was subscribed.
C18_Witness ==
    /\ last.op = "receive"
    /\ last.args = <<TRUE, "mResponseMethod">>
    /\ listeners = 1
    /\ Len(Bucket(events, "postMessage")) = 2
    /\ Len(calls) = 2
    /\ calls[1].data = 2 /\ calls[2].data = 2
    /\ TotalRecords(events) = 2

\* C20: every call of initPostMessaging sets the "postMessage" bucket to an
\* empty sequence, whatever it held, leaves every other bucket as it was and
\* adds one more listener; after n calls each trusted message is processed n
\* times: a subscribe message appends n records, an authorization response is
\* published n times.
C20_SetupNotIdempotent ==
    [][/\ last'.op = "initPostMessaging" =>
            /\ Get(events', "postMessage") = Array(<<>>)
            /\ \A n \in (Keys(events) \cup Keys(events')) \ {"postMessage"} :
                Get(events', n) = Get(events, n)
            /\ IsPrefix(KeyOrder(events), KeyOrder(events'))
            /\ listeners' = listeners + 1
       /\ (last'.op = "receive" /\ last'.args = <<TRUE, "mSubscribe">>) =>
            Bucket(events', "a") =
                Bucket(events, "a")
                \o Repeat([observer |-> "u", payload |-> "mSubscribe"], listeners)
       /\ (last'.op = "receive" /\ last'.args = <<TRUE, "mResponse">>) =>
            Len(calls') = listeners * Len(Bucket(events, "postMessage"))]_vars

\* C20's case: the second call of initPostMessaging has discarded the records
\* subscribed to "postMessage".
C20_Witness ==
    /\ last.op = "initPostMessaging"
    /\ last.had = 2
    /\ listeners = 2
    /\ TotalRecords(events) = 0

====
